---- MODULE Spec2Model ----
(***************************************************************************)
(* Model of src/main/app.py: the /chat request handler and the helper      *)
(* extract_assistant_response.                                             *)
(*                                                                         *)
(* One /chat request is followed from the parsing of its body to its HTTP  *)
(* response.  The upstream service (threads.create, messages.create,       *)
(* runs.create_and_process, messages.list) is the environment: each call   *)
(* either raises or succeeds, and the listing hands the messages over one  *)
(* at a time, as the `for msg in messages` loop of the helper pulls them.  *)
(* A message is any combination of the role, content, text_messages and    *)
(* text values below with at most MaxParts content blocks and              *)
(* text_messages elements.                                                 *)
(*                                                                         *)
(* Python values are tagged records.  Text is a TLA+ string, except the    *)
(* request's "message", which is a sequence of characters so that          *)
(* str.strip() is computed.  Every `value` the upstream carries is text    *)
(* (the helper is annotated Optional[str]), so the slices taken for the    *)
(* log lines (app.py 122, 179, 221) cannot raise.                          *)
(***************************************************************************)
EXTENDS Naturals, Sequences, FiniteSets

VARIABLES
    pc,             \* position of the handler within the request
    body,           \* the request body, as request.get_json sees it
    user_message,   \* chat(): user_message (stripped), <<>> until parsed
    calls,          \* upstream calls and the extraction, in the order attempted
    run_status,     \* run.status once the run returned, "" before
    idx,            \* messages the extraction loop has pulled so far
    nAsst,          \* how many of them had role == "assistant"
    firstOutcome,   \* what the first assistant message gave (ExtractMsg), NoOutcome before
    src,            \* the message the loop was at when the helper returned, NoMsg if none
    raised,         \* whether an exception reached the helper's except clause
    extracted,      \* what extract_assistant_response returned, Unset before
    status,         \* HTTP status of the response, 0 while the request is open
    response        \* the JSON payload of the response

vars == <<pc, body, user_message, calls, run_status, idx, nAsst, firstOutcome,
          src, raised, extracted, status, response>>

\* ---------------------------------------------------------------- bounds

\* Messages the listing hands over in one request.
MaxMsgs == 3

\* Content blocks plus text_messages elements one message carries.
MaxParts == 2

\* ---------------------------------------------------------------- Python values

None == [k |-> "none", v |-> ""]

Str(s) == [k |-> "str", v |-> s]

Unset == [k |-> "unset", v |-> ""]

\* bool(x) of a text-or-None value: None and "" are falsy.
Truthy(x) == x.k = "str" /\ x.v # ""

\* ---------------------------------------------------------------- upstream messages

\* One item of a list-valued msg.content, by what app.py 216-219 asks of it:
\* isinstance(item, dict), item.get('type'), isinstance(item.get('text'), dict),
\* 'value' in item['text'], and item['text']['value'].
Block(isDict, type, textIsDict, hasValue, value) ==
    [isDict |-> isDict, type |-> type, textIsDict |-> textIsDict,
     hasValue |-> hasValue, value |-> value]

NumItem == Block(FALSE, "", FALSE, FALSE, "")

ImageBlock == Block(TRUE, "image_file", FALSE, FALSE, "")

TextNoDict == Block(TRUE, "text", FALSE, FALSE, "")

TextNoValue == Block(TRUE, "text", TRUE, FALSE, "")

TextBlock(v) == Block(TRUE, "text", TRUE, TRUE, v)

Blocks == {NumItem, ImageBlock, TextNoDict, TextNoValue, TextBlock(""), TextBlock("Hello")}

\* One element of msg.text_messages, by what app.py 233-239 asks of it:
\* hasattr(e, 'value'), e.value, hasattr(e, 'text'), hasattr(e.text, 'value').
\* text.k is "absent" (no attribute), "obj" (an object with .value = text.v)
\* or "str" (a plain string text.v, which has no .value).
TextMsg(hasValue, value, tk, tv) ==
    [hasValue |-> hasValue, value |-> value, text |-> [k |-> tk, v |-> tv]]

\* A Python dict such as {"value": "first"} has neither attribute.
PlainDict == TextMsg(FALSE, "", "absent", "")

TextMsgs ==
    { TextMsg(TRUE, "first", "absent", ""),
      TextMsg(TRUE, "second", "absent", ""),
      TextMsg(TRUE, "", "obj", "nested"),
      TextMsg(FALSE, "", "str", "raw"),
      PlainDict }

\* msg.content: k is "absent" (no attribute), "none", "str" (s) or "list" (items).
Content(k, s, items) == [k |-> k, s |-> s, items |-> items]

\* msg.text_messages: has is hasattr(msg, 'text_messages').
TMField(has, items) == [has |-> has, items |-> items]

\* msg.text: k is "absent" (no attribute), "none", "dict" (a non-empty mapping,
\* holding the key 'value' when hasValue), "obj" (an object with .value) or "str"
\* (a plain string).  v is the value, or for a dict without the key its str().
TextField(k, hasValue, v) == [k |-> k, hasValue |-> hasValue, v |-> v]

Texts ==
    { TextField("absent", FALSE, ""),
      TextField("none", FALSE, ""),
      TextField("dict", TRUE, "Answer42"),
      TextField("dict", TRUE, ""),
      TextField("dict", FALSE, "{'note': 1}"),
      TextField("obj", TRUE, "legacy"),
      TextField("str", FALSE, "plain") }

\* msg.role: has is whether the attribute exists.
Roles == { [has |-> FALSE, v |-> ""], [has |-> TRUE, v |-> "user"],
           [has |-> TRUE, v |-> "assistant"] }

SeqsOfLen(S, n) == [1..n -> S]

ScalarContents ==
    { Content("absent", "", <<>>), Content("none", "", <<>>),
      Content("str", "", <<>>), Content("str", "Hi there", <<>>) }

\* The contents holding n parts (a scalar content holds none).
ContentsOfSize(n) ==
    { Content("list", "", b) : b \in SeqsOfLen(Blocks, n) }
        \cup (IF n = 0 THEN ScalarContents ELSE {})

TMFieldsOfSize(n) ==
    { TMField(TRUE, t) : t \in SeqsOfLen(TextMsgs, n) }
        \cup (IF n = 0 THEN {TMField(FALSE, <<>>)} ELSE {})

Msg(role, content, tms, text) ==
    [role |-> role, content |-> content, text_messages |-> tms, text |-> text]

NoMsg == Msg([has |-> FALSE, v |-> "nomsg"], Content("absent", "", <<>>),
             TMField(FALSE, <<>>), TextField("absent", FALSE, ""))

\* ---------------------------------------------------------------- extract_assistant_response

\* What the body of the loop does with one message: it returns r ("ret"), an
\* exception leaves it ("raise"), or it falls through to the next message ("fall").
Ret(r) == [k |-> "ret", r |-> r]

Raise == [k |-> "raise", r |-> None]

Fall == [k |-> "fall", r |-> None]

NoOutcome == [k |-> "unset", r |-> None]

\* app.py 216-219: the tests an item passes before its value is returned.
Qualifies(item) ==
    /\ item.isDict
    /\ item.type = "text"
    /\ item.textIsDict
    /\ item.hasValue

\* app.py 215-222: for item in msg.content, from position i on.
RECURSIVE ScanBlocks(_, _)
ScanBlocks(items, i) ==
    IF i > Len(items) THEN Fall
    ELSE IF Qualifies(items[i]) THEN Ret(Str(items[i].value))
    ELSE ScanBlocks(items, i + 1)

\* app.py 232-239: for text_msg in msg.text_messages, from position i on.
RECURSIVE ScanTextMessages(_, _)
ScanTextMessages(tms, i) ==
    IF i > Len(tms) THEN Fall
    ELSE LET e == tms[i] IN
         IF e.hasValue /\ e.value # "" THEN Ret(Str(e.value))
         ELSE IF e.text.k # "absent" THEN Ret(Str(e.text.v))
         ELSE ScanTextMessages(tms, i + 1)

\* app.py 213-222, format 1.
Format1(msg) ==
    IF msg.content.k = "list" THEN ScanBlocks(msg.content.items, 1) ELSE Fall

\* Format 2 as it would be if an empty string were passed over.
Format2NonEmpty(msg) ==
    IF msg.content.k = "str" /\ msg.content.s # "" THEN Ret(Str(msg.content.s)) ELSE Fall

\* app.py 225-227, format 2.
Format2(msg) ==
    IF msg.content.k = "str" THEN Ret(Str(msg.content.s)) ELSE Fall

\* Format 3 as it would be if it read the last element of text_messages.
Format3Last(msg) ==
    IF msg.text_messages.has /\ msg.text_messages.items # <<>>
    THEN ScanTextMessages(msg.text_messages.items, Len(msg.text_messages.items))
    ELSE Fall

\* app.py 230-239, format 3.
Format3(msg) ==
    IF msg.text_messages.has /\ msg.text_messages.items # <<>>
    THEN ScanTextMessages(msg.text_messages.items, 1)
    ELSE Fall

\* bool(msg.text): None and "" are falsy, a non-empty dict and an object are not.
TextTruthy(t) ==
    \/ t.k \in {"dict", "obj"}
    \/ t.k = "str" /\ t.v # ""

\* app.py 242-249, format 4: the dict's value as it is, else str() of the
\* object's value, else str() of the field itself (t.v holds that text).
Format4(msg) ==
    LET t == msg.text IN
    IF t.k # "absent" /\ TextTruthy(t)
    THEN IF t.k = "dict" /\ t.hasValue THEN Ret(Str(t.v))
         ELSE IF t.k = "obj" THEN Ret(Str(t.v))
         ELSE Ret(Str(t.v))
    ELSE Fall

\* The body of the loop as it would be with the legacy forms tried first.
ExtractMsgLegacyFirst(msg) ==
    IF ~msg.role.has THEN Raise
    ELSE IF msg.role.v # "assistant" THEN Fall
    ELSE IF msg.content.k = "absent" THEN Raise
    ELSE IF Format3(msg).k # "fall" THEN Format3(msg)
    ELSE IF Format4(msg).k # "fall" THEN Format4(msg)
    ELSE IF Format1(msg).k # "fall" THEN Format1(msg)
    ELSE Format2(msg)

\* The body of the loop as it would be without the test of msg.role.
ExtractMsgAnyRole(msg) ==
    IF ~msg.role.has THEN Raise
    ELSE IF msg.content.k = "absent" THEN Raise
    ELSE IF Format1(msg).k # "fall" THEN Format1(msg)
    ELSE IF Format2(msg).k # "fall" THEN Format2(msg)
    ELSE IF Format3(msg).k # "fall" THEN Format3(msg)
    ELSE Format4(msg)

\* app.py 208-249: the body of the loop for one message.  Reading msg.role or
\* msg.content of a message without that attribute raises AttributeError.
ExtractMsg(msg) ==
    IF ~msg.role.has THEN Raise
    ELSE IF msg.role.v # "assistant" THEN Fall
    ELSE IF msg.content.k = "absent" THEN Raise
    ELSE IF Format1(msg).k # "fall" THEN Format1(msg)
    ELSE IF Format2(msg).k # "fall" THEN Format2(msg)
    ELSE IF Format3(msg).k # "fall" THEN Format3(msg)
    ELSE Format4(msg)

\* The except clause as it would be if it raised again.
extract_reraise == Raise

\* app.py 254-256: what the helper's except clause hands to the caller.
extract_except == Ret(None)

\* The helper as it would be if it returned only non-empty text.
extract_skip_empty(o) ==
    IF o.k = "ret" /\ Truthy(o.r) THEN Ret(o.r)
    ELSE IF o.k = "raise" THEN extract_except
    ELSE Fall

\* app.py 207-256: what the helper does once the loop body gave outcome o for
\* the message at hand: return a value, leave through the except clause, or
\* go on to the next message.
extract_assistant_response(o) ==
    IF o.k = "ret" THEN Ret(o.r)
    ELSE IF o.k = "raise" THEN extract_except
    ELSE Fall

\* ---------------------------------------------------------------- the request

Whitespace == {" ", "\t", "\n"}

RECURSIVE LStrip(_)
LStrip(cs) ==
    IF cs = <<>> \/ Head(cs) \notin Whitespace THEN cs ELSE LStrip(Tail(cs))

RECURSIVE RStrip(_)
RStrip(cs) ==
    IF cs = <<>> \/ cs[Len(cs)] \notin Whitespace THEN cs
    ELSE RStrip(SubSeq(cs, 1, Len(cs) - 1))

\* The message as it would be taken without .strip().
NoStrip(cs) == cs

\* str.strip() (app.py 116).
Strip(cs) == RStrip(LStrip(cs))

\* The texts a "message" field holds.
MessageTexts ==
    { <<>>, <<" ">>, <<" ", "\t">>, <<"\n">>, <<"h", "i">>, <<" ", "h", "i", "\n">> }

\* The request body.  k: "missing" (no body), "notjson", "falsy" (JSON that is
\* falsy in Python: {}, [], 0, null), "nonobject" (truthy JSON that is no
\* mapping, such as [1]) or "object".  An object has the key "message" or not;
\* msg.k is the kind of its value ("str", "null", "num") and msg.cs its text.
Body(k, hasMessage, mk, cs) ==
    [k |-> k, hasMessage |-> hasMessage, msg |-> [k |-> mk, cs |-> cs]]

NoBody == Body("none", FALSE, "str", <<>>)

Bodies ==
    { Body(k, FALSE, "str", <<>>) : k \in {"missing", "notjson", "falsy", "nonobject", "object"} }
        \cup { Body("object", TRUE, "str", cs) : cs \in MessageTexts }
        \cup { Body("object", TRUE, mk, <<>>) : mk \in {"null", "num"} }

\* app.py 115-118: get_json(silent=True) or {}, .get("message", ""), .strip()
\* and the emptiness test.  "raise": .get of a non-mapping or .strip of a
\* non-string raises AttributeError; "empty": the 400 branch; "ok": msg goes on.
ParseRequest(b) ==
    IF b.k = "nonobject" THEN [k |-> "raise", msg |-> <<>>]
    ELSE IF b.k \in {"missing", "notjson", "falsy"} \/ ~b.hasMessage
         THEN [k |-> "empty", msg |-> <<>>]
    ELSE IF b.msg.k # "str" THEN [k |-> "raise", msg |-> <<>>]
    ELSE IF Strip(b.msg.cs) = <<>> THEN [k |-> "empty", msg |-> <<>>]
    ELSE [k |-> "ok", msg |-> Strip(b.msg.cs)]

\* app.py 177.
Fallback == Str("I apologize, but I couldn't generate a response. Please try again.")

\* The reply as it would be without the fallback.
ReplyTextRaw(r) == r

\* app.py 175-177: the reply the success payload carries.
ReplyText(r) == IF ~Truthy(r) THEN Fallback ELSE r

\* The status check as it would be if it were left out.
RunFailedNever(st) == FALSE

\* app.py 156: the run's status sends the handler to the 500 branch.
RunFailed(st) == st = "failed"

\* What create_and_process ends with: an exception, or a run with a status.
RunOutcomes == {"raise", "completed", "failed", "expired"}

ErrorPayload(e) == [kind |-> "error", error |-> e, response |-> None]

SuccessPayload(r) == [kind |-> "success", error |-> "", response |-> r]

NoPayload == [kind |-> "none", error |-> "", response |-> None]

\* return jsonify(payload), st
Respond(st, payload) ==
    /\ status' = st
    /\ response' = payload
    /\ pc' = "done"

\* app.py 186-188: the handler's own except clause.
Unexpected == Respond(500, ErrorPayload("An unexpected error occurred"))

helperVars == <<idx, nAsst, firstOutcome, src, raised, extracted>>

Init ==
    /\ pc = "idle"
    /\ body = NoBody
    /\ user_message = <<>>
    /\ calls = <<>>
    /\ run_status = ""
    /\ idx = 0
    /\ nAsst = 0
    /\ firstOutcome = NoOutcome
    /\ src = NoMsg
    /\ raised = FALSE
    /\ extracted = Unset
    /\ status = 0
    /\ response = NoPayload

\* app.py 113-122: a request arrives and its body is parsed.
chat_parse ==
    /\ pc = "idle"
    /\ \E b \in Bodies :
        /\ body' = b
        /\ LET r == ParseRequest(b) IN
           /\ user_message' = r.msg
           /\ IF r.k = "ok" THEN /\ pc' = "create"
                                 /\ UNCHANGED <<status, response>>
              ELSE IF r.k = "empty"
                   THEN Respond(400, ErrorPayload("Message is required"))
              ELSE Unexpected
    /\ UNCHANGED <<calls, run_status, helperVars>>

\* app.py 124-130: project.agents.threads.create().
chat_create_thread ==
    /\ pc = "create"
    /\ calls' = Append(calls, "threads.create")
    /\ \E ok \in BOOLEAN :
        IF ok THEN /\ pc' = "post"
                   /\ UNCHANGED <<status, response>>
        ELSE Respond(500, ErrorPayload("Failed to create conversation thread"))
    /\ UNCHANGED <<body, user_message, run_status, helperVars>>

\* app.py 132-142: project.agents.messages.create(...).
chat_send_message ==
    /\ pc = "post"
    /\ calls' = Append(calls, "messages.create")
    /\ \E ok \in BOOLEAN :
        IF ok THEN /\ pc' = "run"
                   /\ UNCHANGED <<status, response>>
        ELSE Respond(500, ErrorPayload("Failed to send message to agent"))
    /\ UNCHANGED <<body, user_message, run_status, helperVars>>

\* app.py 144-159: project.agents.runs.create_and_process(...) and the check
\* of run.status.
chat_run ==
    /\ pc = "run"
    /\ calls' = Append(calls, "runs.create_and_process")
    /\ \E o \in RunOutcomes :
        IF o = "raise"
        THEN /\ Respond(500, ErrorPayload("Failed to run agent"))
             /\ UNCHANGED run_status
        ELSE /\ run_status' = o
             /\ IF RunFailed(o) THEN Respond(500, ErrorPayload("Agent error"))
                ELSE /\ pc' = "list"
                     /\ UNCHANGED <<status, response>>
    /\ UNCHANGED <<body, user_message, helperVars>>

\* app.py 161-173: project.agents.messages.list(...); on success the handler
\* calls extract_assistant_response(messages).
chat_list_messages ==
    /\ pc = "list"
    /\ \E ok \in BOOLEAN :
        IF ok THEN /\ calls' = calls \o <<"messages.list", "extract">>
                   /\ pc' = "extract"
                   /\ UNCHANGED <<status, response>>
        ELSE /\ calls' = Append(calls, "messages.list")
             /\ Respond(500, ErrorPayload("Failed to retrieve agent response"))
    /\ UNCHANGED <<body, user_message, run_status, helperVars>>

\* The helper is left with outcome h: its value goes to chat() (app.py 173),
\* an exception to the except clause of chat().
HelperLeaves(h) ==
    IF h.k = "ret" THEN /\ extracted' = h.r
                        /\ pc' = "reply"
                        /\ UNCHANGED <<status, response>>
    ELSE /\ extracted' = [k |-> "exception", v |-> ""]
         /\ Unexpected

\* app.py 207-249: one turn of `for msg in messages`: the listing hands over
\* the next message and the body of the loop runs on it.
extract_next ==
    /\ pc = "extract"
    /\ idx < MaxMsgs
    /\ \E i \in 0..MaxParts :
       \E j \in 0..(MaxParts - i) :
       \E r \in Roles, c \in ContentsOfSize(i), t \in TMFieldsOfSize(j), x \in Texts :
        LET m == Msg(r, c, t, x)
            o == ExtractMsg(m)
            h == extract_assistant_response(o)
            asst == m.role.has /\ m.role.v = "assistant"
        IN
        /\ idx' = idx + 1
        /\ nAsst' = IF asst THEN nAsst + 1 ELSE nAsst
        /\ firstOutcome' = IF asst /\ nAsst = 0 THEN o ELSE firstOutcome
        /\ raised' = (o.k = "raise")
        /\ IF h.k = "fall" THEN UNCHANGED <<src, extracted, pc, status, response>>
           ELSE /\ src' = m
                /\ HelperLeaves(h)
    /\ UNCHANGED <<body, user_message, calls, run_status>>

\* app.py 251-252: the listing is exhausted; the helper returns None.
extract_exhausted ==
    /\ pc = "extract"
    /\ HelperLeaves(Ret(None))
    /\ UNCHANGED <<body, user_message, calls, run_status, idx, nAsst,
                   firstOutcome, src, raised>>

\* app.py 207, 254-256: fetching the next page of the listing raises inside
\* the loop; the except clause of the helper takes it.
extract_iter_raises ==
    /\ pc = "extract"
    /\ raised' = TRUE
    /\ HelperLeaves(extract_assistant_response(Raise))
    /\ UNCHANGED <<body, user_message, calls, run_status, idx, nAsst,
                   firstOutcome, src>>

\* app.py 175-184: the fallback and the success payload.
chat_reply ==
    /\ pc = "reply"
    /\ Respond(200, SuccessPayload(ReplyText(extracted)))
    /\ UNCHANGED <<body, user_message, calls, run_status, helperVars>>

Next ==
    \/ chat_parse
    \/ chat_create_thread
    \/ chat_send_message
    \/ chat_run
    \/ chat_list_messages
    \/ extract_next
    \/ extract_exhausted
    \/ extract_iter_raises
    \/ chat_reply

Spec == Init /\ [][Next]_vars

\* ---------------------------------------------------------------- properties

\* The helper has returned to chat().
HelperReturned == extracted.k \in {"none", "str"}

IsAssistant(m) == m.role.has /\ m.role.v = "assistant"

\* A block that is a mapping with type == "text" and a nested text mapping
\* holding a value key.
IsTextBlock(b) == b.isDict /\ b.type = "text" /\ b.textIsDict /\ b.hasValue

TextBlockIndices(items) == { i \in 1..Len(items) : IsTextBlock(items[i]) }

Least(S) == CHOOSE i \in S : \A j \in S : i <= j

\* The content forms yield nothing: content is present, is no string and, if a
\* list, holds no qualifying block.
ContentYieldsNothing(m) ==
    \/ m.content.k = "none"
    \/ m.content.k = "list" /\ TextBlockIndices(m.content.items) = {}

\* An element of text_messages the scan stops at: it has a non-empty value, or
\* it has a text attribute.
Usable(e) == (e.hasValue /\ e.value # "") \/ e.text.k # "absent"

UsableIndices(tms) == { i \in 1..Len(tms) : Usable(tms[i]) }

\* The element's value if present, else its text.value, else its text stringified.
ElementText(e) == IF e.hasValue /\ e.value # "" THEN e.value ELSE e.text.v

Order == <<"threads.create", "messages.create", "runs.create_and_process",
           "messages.list", "extract">>

IsPrefix(a, b) == Len(a) <= Len(b) /\ a = SubSeq(b, 1, Len(a))

\* C1 as stated: once at least one assistant message was met, the result is
\* what the first assistant message alone gives: its text, or None when it
\* yields no text.
C1_FirstAssistantDecides ==
    (HelperReturned /\ nAsst >= 1) =>
        extracted = (IF firstOutcome.k = "ret" THEN firstOutcome.r ELSE None)

\* C1 amended: the result is decided by the first assistant message that yields
\* text or raises, and no later message is read after it; a first assistant
\* message that yields no text does not end the scan, a later assistant message
\* may give the text, and None is returned only when the listing is exhausted
\* or an exception was raised.
C1_FirstYieldingAssistantDecides ==
    /\ firstOutcome.k \in {"ret", "raise"} =>
         /\ HelperReturned
         /\ nAsst = 1
         /\ extracted = (IF firstOutcome.k = "ret" THEN firstOutcome.r ELSE None)
    /\ (HelperReturned /\ extracted.k = "str") => IsAssistant(src)
    /\ (HelperReturned /\ extracted = None) => (raised \/ src = NoMsg)
    /\ (HelperReturned /\ firstOutcome.k = "fall" /\ src # NoMsg /\ ~raised) =>
         (nAsst >= 2 /\ extracted.k = "str")

\* The first assistant message yielded nothing and a second one gave the text.
C1_Witness ==
    /\ HelperReturned
    /\ firstOutcome.k = "fall"
    /\ nAsst = 2
    /\ extracted = Str("Hi there")

\* The case of C2: an assistant message whose content forms yield nothing and
\* whose text_messages is non-empty.
LegacyListCase(m) ==
    /\ IsAssistant(m)
    /\ ContentYieldsNothing(m)
    /\ m.text_messages.has
    /\ m.text_messages.items # <<>>

\* C2 as stated: in the legacy list case the result is taken from the last
\* element of text_messages.
C2_LastElement ==
    (HelperReturned /\ LegacyListCase(src)) =>
        LET tms == src.text_messages.items IN
        Usable(tms[Len(tms)]) => extracted = Str(ElementText(tms[Len(tms)]))

\* C2 amended: in the legacy list case the result is taken from the first
\* element of text_messages, in order, that has a non-empty value or a text
\* attribute (its value, else its text.value, else its text stringified);
\* elements with neither are passed over, and when there is no such element
\* the text field decides.
C2_FirstUsableElement ==
    (HelperReturned /\ LegacyListCase(src)) =>
        LET tms == src.text_messages.items IN
        IF UsableIndices(tms) # {}
        THEN extracted = Str(ElementText(tms[Least(UsableIndices(tms))]))
        ELSE extracted = Str(src.text.v)

\* text_messages with values "first" then "second" gave "first".
C2_Witness ==
    /\ HelperReturned
    /\ LegacyListCase(src)
    /\ src.text_messages.items =
         <<TextMsg(TRUE, "first", "absent", ""), TextMsg(TRUE, "second", "absent", "")>>
    /\ extracted = Str("first")

\* C3: the helper never raises to chat(): whatever it met, a message without
\* role or content, a content list of numbers, an error of the listing, it
\* returns a text or None, None when an exception was raised, and the request
\* that reached the helper is answered with status 200.
C3_NeverRaises ==
    /\ extracted.k \in {"unset", "none", "str"}
    /\ raised => extracted = None
    /\ (pc = "done" /\ Len(calls) = Len(Order)) => status = 200

\* An exception was raised at a message with a missing field, and the request
\* was still answered with status 200.
C3_Witness ==
    /\ raised
    /\ src # NoMsg
    /\ IsAssistant(src)
    /\ src.content.k = "absent"
    /\ status = 200

\* C4 as stated: the result is never the empty string.
C4_NeverEmpty == extracted # Str("")

\* C4 amended: the result is a text or None, and the text may be empty: an
\* assistant message whose content is the empty string, or whose first
\* qualifying text block has an empty value, gives "" and not None.
C4_TextOrNonePossiblyEmpty ==
    /\ extracted.k \in {"unset", "none", "str"}
    /\ (HelperReturned /\ IsAssistant(src) /\ src.content.k = "str" /\ src.content.s = "")
         => extracted = Str("")
    /\ (HelperReturned /\ IsAssistant(src) /\ src.content.k = "list"
          /\ TextBlockIndices(src.content.items) # {}
          /\ src.content.items[Least(TextBlockIndices(src.content.items))].value = "")
         => extracted = Str("")

\* The helper returned "" from a first text block with an empty value.
C4_Witness ==
    /\ extracted = Str("")
    /\ src.content.k = "list"

\* C5: when the content of the message the helper returns from is a list with
\* a qualifying block, the result is the value of the first such block in list
\* order, whatever the blocks before and after it and whatever text_messages
\* and text hold.
C5_FirstTextBlock ==
    (HelperReturned /\ IsAssistant(src) /\ src.content.k = "list"
       /\ TextBlockIndices(src.content.items) # {}) =>
        extracted = Str(src.content.items[Least(TextBlockIndices(src.content.items))].value)

\* A block that does not qualify was passed over, and a usable text field ignored.
C5_Witness ==
    /\ HelperReturned
    /\ IsAssistant(src)
    /\ src.content.k = "list"
    /\ src.content.items = <<NumItem, TextBlock("Hello")>>
    /\ src.text = TextField("dict", TRUE, "Answer42")
    /\ extracted = Str("Hello")

\* C6 as stated: an assistant message with text = {"value": v}, v non-empty,
\* no text_messages, and content absent altogether or yielding nothing, gives v.
C6_LegacyScalar ==
    (HelperReturned /\ IsAssistant(src)
       /\ src.text.k = "dict" /\ src.text.hasValue /\ src.text.v # ""
       /\ (~src.text_messages.has \/ src.text_messages.items = <<>>)
       /\ (src.content.k = "absent" \/ ContentYieldsNothing(src))) =>
        extracted = Str(src.text.v)

\* C7: when no message read had role "assistant" (none were read at all
\* included), the helper returns None.
C7_NoAssistant ==
    (HelperReturned /\ nAsst = 0) => extracted = None

\* Two messages were read, none an assistant's, and the listing ended.
C7_Witness ==
    /\ HelperReturned
    /\ nAsst = 0
    /\ idx >= 2
    /\ ~raised
    /\ extracted = None

\* C8: a request that reached the helper is answered with status 200; the
\* success payload carries the fallback apology when the helper returned None
\* or "", and never an empty or null "response".
C8_Fallback ==
    /\ (pc = "done" /\ HelperReturned) => status = 200
    /\ status = 200 =>
         /\ response.kind = "success"
         /\ Truthy(response.response)
         /\ ~Truthy(extracted) => response.response = Fallback

\* The helper returned "" and the payload carries the apology.
C8_Witness ==
    /\ status = 200
    /\ extracted = Str("")
    /\ response.response = Fallback

\* C9: the upstream calls and the extraction are attempted in the one order
\* create, post, run, list, extract; a step that raises, or a run that ends
\* "failed", is answered with status 500 with no later call and no extraction.
C9_Order ==
    /\ IsPrefix(calls, Order)
    /\ status = 500 =>
         /\ extracted = Unset
         /\ Len(calls) < Len(Order)
         /\ response.kind = "error"
         /\ response.error = "Failed to create conversation thread" => Len(calls) = 1
         /\ response.error = "Failed to send message to agent" => Len(calls) = 2
         /\ response.error \in {"Failed to run agent", "Agent error"} => Len(calls) = 3
         /\ response.error = "Failed to retrieve agent response" => Len(calls) = 4
    /\ run_status = "failed" =>
         (pc = "done" /\ status = 500 /\ response.error = "Agent error" /\ Len(calls) = 3)
    /\ (Len(calls) >= 4) => run_status \in {"completed", "expired"}

\* The run ended "failed" and the request was answered 500 after three calls.
C9_Witness ==
    /\ status = 500
    /\ run_status = "failed"
    /\ calls = SubSeq(Order, 1, 3)

\* The bodies of C10: missing, not JSON, an object without "message", or a
\* message that is empty or whitespace only.
NoUsableMessage(b) ==
    \/ b.k \in {"missing", "notjson"}
    \/ b.k = "object" /\ ~b.hasMessage
    \/ /\ b.k = "object"
       /\ b.hasMessage
       /\ b.msg.k = "str"
       /\ \A i \in 1..Len(b.msg.cs) : b.msg.cs[i] \in Whitespace

\* C10: such a request is answered with status 400 and "Message is required",
\* and no upstream call is made for it.
C10_MessageRequired ==
    (pc # "idle" /\ NoUsableMessage(body)) =>
        /\ pc = "done"
        /\ status = 400
        /\ response = ErrorPayload("Message is required")
        /\ calls = <<>>

\* A whitespace-only message was answered 400.
C10_Witness ==
    /\ status = 400
    /\ body.k = "object"
    /\ body.msg.cs = <<" ", "\t">>
    /\ calls = <<>>

====
